---- MODULE Spec2Model ----
(***************************************************************************)
(* A model of lhttpfs (src/src/fs.rs): the compilation of the layout into  *)
(* the inode table (LazyHTTPFS::new, add_inodes) and the four FUSE         *)
(* handlers (lookup, getattr, readdir, read) with the in-memory cache.     *)
(***************************************************************************)
EXTENDS Integers, Sequences, FiniteSets, TLC

(***************************************************************************)
(* Bounds of the model.                                                    *)
(***************************************************************************)
\* largest number of nodes declared in a layout handed to the constructor
\* (the synthetic root excluded)
MaxNodes == 4
\* largest number of nodes declared in a layout that is mounted and served
MaxServed == 2
\* largest i64 offset handed to readdir and read (the smallest is -1)
MaxOffset == 6
\* largest number of entries a saturating readdir consumer accepts
MaxCap == 1
\* cap on the per-URL count of successful transfers
MaxFetches == 2

(***************************************************************************)
(* The inputs: file declarations, directory names, remote bodies.          *)
(***************************************************************************)
URLA == "http://x/a"
URLB == "http://x/b"
URLs == {URLA, URLB}

\* InputFile::URLFile { name, url, size }
URLFile(n, u, s) == [tag |-> "URLFile", name |-> n, url |-> u, size |-> s]
\* InputFile::Directory { name, contents }
Directory(n, c) == [tag |-> "Directory", name |-> n, contents |-> c]

\* the file declarations layouts are drawn from: two distinct files, and a
\* third one that repeats the first one's name and the second one's url,
\* with a declared size that is not the length of the remote body
FilePool ==
    { URLFile("a.txt", URLA, 5),
      URLFile("b.txt", URLB, 3),
      URLFile("a.txt", URLB, 1030) }
DirNames == {"d"}

\* the bodies the remote end serves
Hello == <<"h", "e", "l", "l", "o">>
Abc == <<"a", "b", "c">>
Bodies == {Hello, Abc}

\* names asked of lookup: the declared ones and one that is never declared
LookupNames == {"a.txt", "b.txt", "d", "nope"}

RECURSIVE ForestsOf(_), TreesOf(_)
\* the ordered forests of InputFile with exactly n nodes
ForestsOf(n) ==
    IF n = 0 THEN {<<>>}
    ELSE UNION { { <<t>> \o r : t \in TreesOf(k), r \in ForestsOf(n - k) } : k \in 1..n }
\* the InputFile values with exactly n nodes
TreesOf(n) ==
    (IF n = 1 THEN FilePool ELSE {})
        \cup { Directory(d, c) : d \in DirNames, c \in ForestsOf(n - 1) }

\* Vec<InputFile>: every layout of at most MaxNodes nodes
Layouts == UNION { ForestsOf(n) : n \in 0..MaxNodes }

\* a file of 5 bytes beside a directory that holds a file of 3 bytes
ExampleLayout ==
    << URLFile("a.txt", URLA, 5), Directory("d", <<URLFile("b.txt", URLB, 3)>>) >>

\* the layouts that are mounted: every one of at most MaxServed nodes, and
\* the example
ServedLayouts == UNION { ForestsOf(n) : n \in 0..MaxServed } \cup {ExampleLayout}

\* what the remote end serves: distinct urls serve distinct bodies
Remotes == { r \in [URLs -> Bodies] : r[URLA] # r[URLB] }

(***************************************************************************)
(* The node table.                                                         *)
(***************************************************************************)
\* FileAttr literal of add_inodes; UNIX_EPOCH is 0
BaseAttr ==
    [ ino |-> 0, size |-> 0, blocks |-> 0,
      atime |-> 0, mtime |-> 0, ctime |-> 0, crtime |-> 0,
      kind |-> "RegularFile", perm |-> 292, nlink |-> 1,
      uid |-> 1000, gid |-> 1000, rdev |-> 0, blksize |-> 512, flags |-> 0 ]

\* HashMap::new()
EmptyMap == [n \in {} |-> 0]

\* FileNodeOf counting a started block as a whole one
FileNodeOfCeil(urlfile, inode) ==
    [ tag |-> "FileNode",
      attr |-> [BaseAttr EXCEPT !.ino = inode,
                                !.size = urlfile.size,
                                !.blocks = (urlfile.size + 511) \div 512],
      url |-> urlfile.url,
      contents |-> EmptyMap ]

\* Node::FileNode built for a URLFile at the current inode counter
FileNodeOf(urlfile, inode) ==
    [ tag |-> "FileNode",
      attr |-> [BaseAttr EXCEPT !.ino = inode,
                                !.size = urlfile.size,
                                !.blocks = urlfile.size \div 512],
      url |-> urlfile.url,
      contents |-> EmptyMap ]

\* Node::DirNode built for a Directory at the current inode counter
DirNodeOf(inode) ==
    [ tag |-> "DirNode",
      attr |-> [BaseAttr EXCEPT !.ino = inode, !.kind = "Directory"],
      url |-> "",
      contents |-> EmptyMap ]

\* InputFile::name
NameOf(file) == file.name

\* CollectMap with each name mapped to its position among the siblings
\* instead of the identifier zipped to it
CollectMapByPosition(toplev, contents) ==
    LET n == IF Len(toplev) < Len(contents) THEN Len(toplev) ELSE Len(contents)
        keys == { NameOf(contents[i]) : i \in 1..n }
        last(k) == CHOOSE i \in 1..n :
                      /\ NameOf(contents[i]) = k
                      /\ \A j \in 1..n : NameOf(contents[j]) = k => j <= i
    IN [k \in keys |-> last(k)]

\* CollectMap keeping the first pair of a name instead of the last
CollectMapFirst(toplev, contents) ==
    LET n == IF Len(toplev) < Len(contents) THEN Len(toplev) ELSE Len(contents)
        keys == { NameOf(contents[i]) : i \in 1..n }
        first(k) == CHOOSE i \in 1..n :
                      /\ NameOf(contents[i]) = k
                      /\ \A j \in 1..n : NameOf(contents[j]) = k => i <= j
    IN [k \in keys |-> toplev[first(k)]]

\* CollectMap with every identifier one too small
CollectMapShifted(toplev, contents) ==
    LET n == IF Len(toplev) < Len(contents) THEN Len(toplev) ELSE Len(contents)
        keys == { NameOf(contents[i]) : i \in 1..n }
        last(k) == CHOOSE i \in 1..n :
                      /\ NameOf(contents[i]) = k
                      /\ \A j \in 1..n : NameOf(contents[j]) = k => j <= i
    IN [k \in keys |-> toplev[last(k)] - 1]

\* toplev.iter().zip(&dir.contents).map(..).collect::<HashMap>(): a later pair
\* replaces an earlier pair of the same name
CollectMap(toplev, contents) ==
    LET n == IF Len(toplev) < Len(contents) THEN Len(toplev) ELSE Len(contents)
        keys == { NameOf(contents[i]) : i \in 1..n }
        last(k) == CHOOSE i \in 1..n :
                      /\ NameOf(contents[i]) = k
                      /\ \A j \in 1..n : NameOf(contents[j]) = k => j <= i
    IN [k \in keys |-> toplev[last(k)]]

\* NextInode stepping by two
NextInodeSkips(inode) == inode + 2

\* *inode += 1
NextInode(inode) == inode + 1

RECURSIVE add_inodes(_, _), add_loop(_, _, _)
\* add_step with a directory numbered after its contents instead of before
add_step_postorder(file, acc) ==
    IF file.tag = "URLFile"
    THEN [ result |-> Append(acc.result, FileNodeOf(file, acc.inode)),
           toplev |-> Append(acc.toplev, acc.inode),
           inode |-> NextInode(acc.inode) ]
    ELSE LET sub == add_inodes(file.contents, acc.inode)
             pushed == Append(acc.result, DirNodeOf(sub.inode))
             dir_index == Len(pushed)
             inodes == CollectMap(sub.toplev, file.contents)
             extended == pushed \o sub.result
         IN [ result |-> [extended EXCEPT ![dir_index].contents = inodes],
              toplev |-> Append(acc.toplev, sub.inode),
              inode |-> NextInode(sub.inode) ]

\* one iteration of the for loop of add_inodes on files[i]
add_step(file, acc) ==
    IF file.tag = "URLFile"
    THEN [ result |-> Append(acc.result, FileNodeOf(file, acc.inode)),
           toplev |-> Append(acc.toplev, acc.inode),
           inode |-> NextInode(acc.inode) ]
    ELSE LET pushed == Append(acc.result, DirNodeOf(acc.inode))
             dir_index == Len(pushed)
             sub == add_inodes(file.contents, NextInode(acc.inode))
             inodes == CollectMap(sub.toplev, file.contents)
             extended == pushed \o sub.result
         IN [ result |-> [extended EXCEPT ![dir_index].contents = inodes],
              toplev |-> Append(acc.toplev, acc.inode),
              inode |-> sub.inode ]
add_loop(files, i, acc) ==
    IF i > Len(files) THEN acc
    ELSE add_loop(files, i + 1, add_step(files[i], acc))
\* add_inodes(files, &mut inode) -> (result, toplev), with the counter's final value
add_inodes(files, inode) ==
    add_loop(files, 1, [result |-> <<>>, toplev |-> <<>>, inode |-> inode])

RECURSIVE InsertByIno(_, _), SortByIno(_)
InsertByIno(sorted, x) ==
    IF sorted = <<>> THEN <<x>>
    ELSE IF x.attr.ino < Head(sorted).attr.ino THEN <<x>> \o sorted
    ELSE <<Head(sorted)>> \o InsertByIno(Tail(sorted), x)
\* r.sort_unstable_by_key(|f| f.get_attr().ino)
SortByIno(r) ==
    IF r = <<>> THEN <<>> ELSE InsertByIno(SortByIno(Tail(r)), Head(r))

\* the root the constructor wraps the layout in
RootOf(files) == Directory("/", files)

\* the first inode number the constructor hands out
FirstInode == 1

\* LazyHTTPFS::new(files).nodes
NewNodes(files) ==
    SortByIno(add_inodes(<<RootOf(files)>>, FirstInode).result)


(***************************************************************************)
(* The state.                                                              *)
(***************************************************************************)
VARIABLES
    files,       \* the layout handed to the constructor (kept for reference)
    nodes,       \* LazyHTTPFS.nodes
    cache,       \* LazyHTTPFS.cache: url -> body
    iter_order,  \* per node, the order in which its contents map iterates
    remote,      \* the body the remote end serves per url
    alive,       \* FALSE once a handler has panicked (the process is gone)
    op,          \* the last call made by the driver
    reply,       \* what that call replied
    fetches,     \* per url, the number of transfers that succeeded
    fetcher      \* per url, the inode whose read made the transfer (0: none)

vars == <<files, nodes, cache, iter_order, remote, alive, op, reply, fetches, fetcher>>

ENOENT == 2

RECURSIVE Perms(_)
\* every sequence that lists the elements of S once
Perms(S) ==
    IF S = {} THEN {<<>>}
    ELSE UNION { { <<x>> \o p : p \in Perms(S \ {x}) } : x \in S }

RECURSIVE IterOrders(_)
\* HashMap iteration order is unspecified: any listing of the keys, per map
IterOrders(ns) ==
    IF ns = <<>> THEN {<<>>}
    ELSE { <<p>> \o r : p \in Perms(DOMAIN Head(ns).contents), r \in IterOrders(Tail(ns)) }

\* the value 2^64 at which the cast "as usize" wraps, scaled to 2^30 so that
\* it fits the 32-bit integers of TLC; it exceeds every length of the model
UsizeModulus == 1073741824

\* offset as usize
AsUsize(offset) == IF offset < 0 THEN UsizeModulus + offset ELSE offset

None == [some |-> FALSE]
Some(v) == [some |-> TRUE, val |-> v]

\* get_inode with an identifier past either end clamped into the table
get_inode_clamped(ns, i) ==
    IF i = 0 THEN Some(ns[1])
    ELSE IF i - 1 < Len(ns) THEN Some(ns[i]) ELSE Some(ns[Len(ns)])

\* LazyHTTPFS::get_inode
get_inode(ns, i) ==
    IF i = 0 THEN None
    ELSE IF i - 1 < Len(ns) THEN Some(ns[i]) ELSE None

\* Node::get_attr
get_attr(node) == node.attr

\* Node::filetype
filetype(node) == IF node.tag = "DirNode" THEN "Directory" ELSE "RegularFile"

ReplyError(e) == [kind |-> "error", errno |-> e]
ReplyEntry(a) == [kind |-> "entry", attr |-> a]
ReplyAttr(a) == [kind |-> "attr", attr |-> a]
ReplyDir(es) == [kind |-> "directory", entries |-> es]
ReplyData(d) == [kind |-> "data", data |-> d]
\* the handler panicked before replying
NoReply == [kind |-> "panic"]

(***************************************************************************)
(* lookup                                                                  *)
(***************************************************************************)
\* LookupChild answering with the directory itself
LookupChildSelf(ns, dir_node, name) ==
    IF name \in DOMAIN dir_node.contents
    THEN get_inode(ns, dir_node.attr.ino)
    ELSE None

\* dir_node.contents.get(name).and_then(|i| self.get_inode(*i))
LookupChild(ns, dir_node, name) ==
    IF name \in DOMAIN dir_node.contents
    THEN get_inode(ns, dir_node.contents[name])
    ELSE None

\* LookupReply answering for a file used as parent with the file's own entry
LookupReplyFileParent(ns, parent, name) ==
    LET parent_dir == get_inode(ns, parent) IN
    IF ~parent_dir.some THEN ReplyError(ENOENT)
    ELSE IF parent_dir.val.tag = "DirNode"
    THEN LET file == LookupChild(ns, parent_dir.val, name) IN
         IF file.some THEN ReplyEntry(get_attr(file.val)) ELSE ReplyError(ENOENT)
    ELSE ReplyEntry(get_attr(parent_dir.val))

\* the reply of LazyHTTPFS::lookup
LookupReply(ns, parent, name) ==
    LET parent_dir == get_inode(ns, parent) IN
    IF ~parent_dir.some THEN ReplyError(ENOENT)
    ELSE IF parent_dir.val.tag = "DirNode"
    THEN LET file == LookupChild(ns, parent_dir.val, name) IN
         IF file.some THEN ReplyEntry(get_attr(file.val)) ELSE ReplyError(ENOENT)
    ELSE ReplyError(ENOENT)

(***************************************************************************)
(* getattr                                                                 *)
(***************************************************************************)
\* the reply of LazyHTTPFS::getattr
GetattrReply(ns, ino) ==
    LET file == get_inode(ns, ino) IN
    IF file.some THEN ReplyAttr(get_attr(file.val)) ELSE ReplyError(ENOENT)

(***************************************************************************)
(* readdir                                                                 *)
(***************************************************************************)
RECURSIVE ChildEntries(_, _, _)
\* dir.contents.iter().filter_map(..): the children in the map's iteration order
ChildEntries(ns, dir, names) ==
    IF names = <<>> THEN <<>>
    ELSE LET inode == dir.contents[Head(names)]
             file == get_inode(ns, inode)
             rest == ChildEntries(ns, dir, Tail(names))
         IN IF file.some
            THEN <<[ino |-> inode, name |-> Head(names), kind |-> filetype(file.val)]>> \o rest
            ELSE rest

\* dots.into_iter().chain(..)
Chained(ns, ord, ino) ==
    << [ino |-> ino, name |-> ".", kind |-> "Directory"],
       [ino |-> ino, name |-> "..", kind |-> "Directory"] >>
        \o ChildEntries(ns, ns[ino], ord[ino])

\* Enumerated handing out the 0-based position itself as the next offset
EnumeratedZeroBased(es) ==
    [i \in 1..Len(es) |->
        [ino |-> es[i].ino, offset |-> i - 1, kind |-> es[i].kind, name |-> es[i].name]]

\* .enumerate(): the 0-based position i, added as offset i + 1
Enumerated(es) ==
    [i \in 1..Len(es) |->
        [ino |-> es[i].ino, offset |-> (i - 1) + 1, kind |-> es[i].kind, name |-> es[i].name]]

\* Skipped dropping one entry more than asked
SkippedOneMore(es, offset) ==
    LET k == AsUsize(offset) + 1 IN
    IF k >= Len(es) THEN <<>> ELSE SubSeq(es, k + 1, Len(es))

\* .skip(offset as usize)
Skipped(es, offset) ==
    LET k == AsUsize(offset) IN
    IF k >= Len(es) THEN <<>> ELSE SubSeq(es, k + 1, Len(es))

\* .try_for_each(reply.add): reply.add refuses the entry once the buffer is
\* full, and the enumeration stops there
Added(es, room) ==
    IF room.full /\ room.after < Len(es) THEN SubSeq(es, 1, room.after) ELSE es

\* the reply of LazyHTTPFS::readdir
ReaddirReply(ns, ord, ino, offset, room) ==
    LET parent_dir == get_inode(ns, ino) IN
    IF ~parent_dir.some THEN ReplyError(ENOENT)
    ELSE IF parent_dir.val.tag = "DirNode"
    THEN ReplyDir(Added(Skipped(Enumerated(Chained(ns, ord, ino)), offset), room))
    ELSE ReplyError(ENOENT)

(***************************************************************************)
(* read                                                                    *)
(***************************************************************************)
\* &data[offset as usize..]: panics when the start is past the end
SliceFrom(data, offset) ==
    LET k == AsUsize(offset) IN
    IF k > Len(data) THEN None ELSE Some(SubSeq(data, k + 1, Len(data)))

\* CacheInsert that forgets every other entry
CacheInsertOnly(c, url, vec) == [u \in {url} |-> vec]

\* CacheInsert that stores nothing
CacheInsertDropped(c, url, vec) == c

\* self.cache.insert(url, vec)
CacheInsert(c, url, vec) ==
    [u \in DOMAIN c \cup {url} |-> IF u = url THEN vec ELSE c[u]]

\* ReadHit replying the whole buffer whatever the offset
ReadHitWhole(c, url, offset) ==
    LET s == SliceFrom(c[url], offset) IN
    IF s.some
    THEN [reply |-> ReplyData(c[url]), cache |-> c, alive |-> TRUE, fetch |-> "none"]
    ELSE [reply |-> NoReply, cache |-> c, alive |-> FALSE, fetch |-> "none"]

\* the cache-hit branch of read
ReadHit(c, url, offset) ==
    LET s == SliceFrom(c[url], offset) IN
    IF s.some
    THEN [reply |-> ReplyData(s.val), cache |-> c, alive |-> TRUE, fetch |-> "none"]
    ELSE [reply |-> NoReply, cache |-> c, alive |-> FALSE, fetch |-> "none"]

\* ReadMiss that replies the body without storing it
ReadMissUnstored(c, rem, url, offset, outcome) ==
    IF outcome = "err"
    THEN [reply |-> NoReply, cache |-> c, alive |-> FALSE, fetch |-> "err"]
    ELSE LET vec == rem[url]
             s == SliceFrom(vec, offset)
         IN IF s.some
            THEN [reply |-> ReplyData(s.val), cache |-> c, alive |-> TRUE, fetch |-> "ok"]
            ELSE [reply |-> NoReply, cache |-> c, alive |-> FALSE, fetch |-> "ok"]

\* the cache-miss branch of read; outcome is what transaction.perform() returns
ReadMiss(c, rem, url, offset, outcome) ==
    IF outcome = "err"
    THEN \* transaction.perform().unwrap() panics
         [reply |-> NoReply, cache |-> c, alive |-> FALSE, fetch |-> "err"]
    ELSE LET vec == rem[url]
             s == SliceFrom(vec, offset)
         IN IF s.some
            THEN [reply |-> ReplyData(s.val), cache |-> CacheInsert(c, url, vec),
                  alive |-> TRUE, fetch |-> "ok"]
            ELSE [reply |-> NoReply, cache |-> c, alive |-> FALSE, fetch |-> "ok"]

\* LazyHTTPFS::read: the reply, the cache after it, whether the process
\* survived, and what the transfer did
ReadResult(ns, c, rem, ino, offset, size, outcome) ==
    LET node == get_inode(ns, ino) IN
    IF node.some /\ node.val.tag = "FileNode"
    THEN IF node.val.url \in DOMAIN c
         THEN ReadHit(c, node.val.url, offset)
         ELSE ReadMiss(c, rem, node.val.url, offset, outcome)
    ELSE [reply |-> ReplyError(ENOENT), cache |-> c, alive |-> TRUE, fetch |-> "none"]

(***************************************************************************)
(* The driver's calls.                                                     *)
(***************************************************************************)
Inodes == 0..(Len(nodes) + 1)
Offsets == (-1)..MaxOffset
ReadSizes == {3, 5}
Outcomes == {"ok", "err"}
Rooms ==
    {[full |-> FALSE, after |-> 0]} \cup {[full |-> TRUE, after |-> c] : c \in 0..MaxCap}

NoOp == [call |-> "none"]

\* the state in which fuser::mount2 starts to serve: LazyHTTPFS::new has run
Init ==
    /\ files \in ServedLayouts
    /\ nodes = NewNodes(files)
    /\ cache = EmptyMap
    /\ iter_order \in IterOrders(nodes)
    /\ remote \in Remotes
    /\ alive = TRUE
    /\ op = NoOp
    /\ reply = [kind |-> "none"]
    /\ fetches = [u \in URLs |-> 0]
    /\ fetcher = [u \in URLs |-> 0]

\* Lookup dispatched without waiting for the handler in progress
LookupUnguarded(parent, name) ==
    /\ alive
    /\ op' = [call |-> "lookup", ino |-> parent, name |-> name]
    /\ reply' = LookupReply(nodes, parent, name)
    /\ UNCHANGED <<files, nodes, cache, iter_order, remote, alive, fetches, fetcher>>

Lookup(parent, name) ==
    /\ alive /\ op = NoOp
    /\ op' = [call |-> "lookup", ino |-> parent, name |-> name]
    /\ reply' = LookupReply(nodes, parent, name)
    /\ UNCHANGED <<files, nodes, cache, iter_order, remote, alive, fetches, fetcher>>

Getattr(ino) ==
    /\ alive /\ op = NoOp
    /\ op' = [call |-> "getattr", ino |-> ino]
    /\ reply' = GetattrReply(nodes, ino)
    /\ UNCHANGED <<files, nodes, cache, iter_order, remote, alive, fetches, fetcher>>

Readdir(ino, offset, room) ==
    /\ alive /\ op = NoOp
    /\ op' = [call |-> "readdir", ino |-> ino, offset |-> offset, room |-> room]
    /\ reply' = ReaddirReply(nodes, iter_order, ino, offset, room)
    /\ UNCHANGED <<files, nodes, cache, iter_order, remote, alive, fetches, fetcher>>

\* whether read(ino) has to go to the remote end: a file whose url is not cached
NeedsTransfer(ns, c, ino) ==
    LET node == get_inode(ns, ino) IN
    node.some /\ node.val.tag = "FileNode" /\ node.val.url \notin DOMAIN c

\* the handler is blocked in transaction.perform()
Pending == op.call = "read" /\ op.fetch = "pending"

\* LazyHTTPFS::read up to the blocking transfer: a read that needs none runs
\* to its reply, one that needs it blocks in transaction.perform()
Read(ino, offset, size) ==
    /\ alive /\ op = NoOp
    /\ IF NeedsTransfer(nodes, cache, ino)
       THEN /\ op' = [call |-> "read", ino |-> ino, offset |-> offset, size |-> size,
                      fetch |-> "pending"]
            /\ reply' = [kind |-> "none"]
            /\ UNCHANGED <<cache, alive>>
       ELSE LET r == ReadResult(nodes, cache, remote, ino, offset, size, "ok") IN
            /\ op' = [call |-> "read", ino |-> ino, offset |-> offset, size |-> size,
                      fetch |-> r.fetch]
            /\ reply' = r.reply
            /\ cache' = r.cache
            /\ alive' = r.alive
    /\ UNCHANGED <<files, nodes, iter_order, remote, fetches, fetcher>>

\* Transfer that also sets the file's size attribute to the length received
TransferResizing(outcome) ==
    LET r == ReadResult(nodes, cache, remote, op.ino, op.offset, op.size, outcome)
        url == get_inode(nodes, op.ino).val.url
    IN
    /\ alive /\ Pending
    /\ r.fetch = "ok" => fetches[url] < MaxFetches
    /\ op' = [op EXCEPT !.fetch = r.fetch]
    /\ reply' = r.reply
    /\ cache' = r.cache
    /\ alive' = r.alive
    /\ fetches' = IF r.fetch = "ok" THEN [fetches EXCEPT ![url] = @ + 1] ELSE fetches
    /\ fetcher' = IF r.fetch = "ok" THEN [fetcher EXCEPT ![url] = op.ino] ELSE fetcher
    /\ nodes' = IF r.fetch = "ok"
                THEN [nodes EXCEPT ![op.ino].attr.size = Len(remote[url])]
                ELSE nodes
    /\ UNCHANGED <<files, iter_order, remote>>

\* LazyHTTPFS::read from the return of transaction.perform() to its end
Transfer(outcome) ==
    LET r == ReadResult(nodes, cache, remote, op.ino, op.offset, op.size, outcome)
        url == get_inode(nodes, op.ino).val.url
    IN
    /\ alive /\ Pending
    /\ r.fetch = "ok" => fetches[url] < MaxFetches
    /\ op' = [op EXCEPT !.fetch = r.fetch]
    /\ reply' = r.reply
    /\ cache' = r.cache
    /\ alive' = r.alive
    /\ fetches' = IF r.fetch = "ok" THEN [fetches EXCEPT ![url] = @ + 1] ELSE fetches
    /\ fetcher' = IF r.fetch = "ok" THEN [fetcher EXCEPT ![url] = op.ino] ELSE fetcher
    /\ UNCHANGED <<files, nodes, iter_order, remote>>

\* the session loop of fuser::mount2 hands the reply to the kernel and waits
\* for the next request; a panicked handler never returns to it
Return ==
    /\ alive /\ op # NoOp /\ ~Pending
    /\ op' = NoOp
    /\ reply' = [kind |-> "none"]
    /\ UNCHANGED <<files, nodes, cache, iter_order, remote, alive, fetches, fetcher>>

Next ==
    \/ \E parent \in Inodes, name \in LookupNames : Lookup(parent, name)
    \/ \E ino \in Inodes : Getattr(ino)
    \/ \E ino \in Inodes, offset \in Offsets, room \in Rooms : Readdir(ino, offset, room)
    \/ \E ino \in Inodes, offset \in Offsets, size \in ReadSizes : Read(ino, offset, size)
    \/ \E outcome \in Outcomes : Transfer(outcome)
    \/ Return

Spec == Init /\ [][Next]_vars

(***************************************************************************)
(* The constructor alone, on every layout of at most MaxNodes nodes.       *)
(***************************************************************************)
InitBuild ==
    /\ files \in Layouts
    /\ nodes = <<>>
    /\ cache = EmptyMap
    /\ iter_order = <<>>
    /\ remote \in Remotes
    /\ alive = TRUE
    /\ op = NoOp
    /\ reply = [kind |-> "none"]
    /\ fetches = [u \in URLs |-> 0]
    /\ fetcher = [u \in URLs |-> 0]

\* LazyHTTPFS::new
New ==
    /\ nodes = <<>>
    /\ nodes' = NewNodes(files)
    /\ cache' = EmptyMap
    /\ iter_order' \in IterOrders(nodes')
    /\ UNCHANGED <<files, remote, alive, op, reply, fetches, fetcher>>

SpecBuild == InitBuild /\ [][New]_vars


(***************************************************************************)
(* What the claims speak of.                                               *)
(***************************************************************************)
Built == nodes # <<>>

RECURSIVE NodeCount(_)
\* the number of nodes a forest declares
NodeCount(forest) ==
    IF forest = <<>> THEN 0
    ELSE 1 + (IF Head(forest).tag = "Directory" THEN NodeCount(Head(forest).contents) ELSE 0)
           + NodeCount(Tail(forest))

RECURSIVE Flatten(_)
\* the declared nodes in pre-order
Flatten(forest) ==
    IF forest = <<>> THEN <<>>
    ELSE <<Head(forest)>>
           \o (IF Head(forest).tag = "Directory" THEN Flatten(Head(forest).contents) ELSE <<>>)
           \o Flatten(Tail(forest))

\* the declaration the node of identifier i was built from
DeclaredAt(i) == Flatten(<<RootOf(files)>>)[i]

\* no two siblings of this directory share a name
UniqueNames(contents) ==
    \A i, j \in 1..Len(contents) : contents[i].name = contents[j].name => i = j

\* no two siblings of any directory of the layout share a name
AllUnique == \A i \in 1..(NodeCount(files) + 1) :
    DeclaredAt(i).tag = "Directory" => UniqueNames(DeclaredAt(i).contents)

\* the node is the one built from this declaration
BuiltFrom(node, decl) ==
    IF decl.tag = "URLFile"
    THEN node.tag = "FileNode" /\ node.url = decl.url /\ node.attr.size = decl.size
    ELSE node.tag = "DirNode"

IsDir(i) == i \in 1..Len(nodes) /\ nodes[i].tag = "DirNode"
IsFile(i) == i \in 1..Len(nodes) /\ nodes[i].tag = "FileNode"

\* C1: the table has one entry per declared node plus the root, the entry at
\* 0-based position p has identifier p + 1, and identifier 1 is the root
\* directory.
C1_Contiguous ==
    Built =>
        /\ Len(nodes) = NodeCount(files) + 1
        /\ \A p \in 0..(Len(nodes) - 1) : nodes[p + 1].attr.ino = p + 1
        /\ nodes[1].tag = "DirNode"
        /\ nodes[1].attr.kind = "Directory"

\* a table built from a layout nested two directories deep
C1_Witness ==
    /\ Built
    /\ Len(files) = 1
    /\ files[1].tag = "Directory"
    /\ Len(files[1].contents) = 1
    /\ files[1].contents[1].tag = "Directory"
    /\ Len(files[1].contents[1].contents) = 1
    /\ Len(nodes) = 4

\* the identifier of the i-th declared child of the directory d
ChildId(contents, d, i) == d + 1 + NodeCount(SubSeq(contents, 1, i - 1))

RECURSIVE PreOrderFrom(_, _, _)
\* the children of directory d, declared as contents, and all below them sit
\* where a pre-order numbering puts them
PreOrderFrom(ns, contents, d) ==
    \A i \in 1..Len(contents) :
        LET id == ChildId(contents, d, i)
            c == contents[i]
        IN /\ id \in 1..Len(ns)
           /\ ns[id].attr.ino = id
           /\ BuiltFrom(ns[id], c)
           /\ UniqueNames(contents) =>
                 /\ c.name \in DOMAIN ns[d].contents
                 /\ ns[d].contents[c.name] = id
           /\ c.tag = "Directory" => PreOrderFrom(ns, c.contents, id)

\* C8: identifiers are assigned in pre-order: the root is 1, the i-th child
\* of directory d gets the first identifier after the subtree of the child
\* before it (d + 1 for the first), so the subtree of d holds d+1 .. d+m; the
\* example layout gives root {a.txt->2, d->3}, a.txt = 2 (size 5),
\* d = 3 {b.txt->4}, b.txt = 4 (size 3).
C8_PreOrder ==
    Built =>
        /\ nodes[1].attr.ino = 1
        /\ nodes[1].tag = "DirNode"
        /\ PreOrderFrom(nodes, files, 1)
        /\ files = ExampleLayout =>
              /\ Len(nodes) = 4
              /\ nodes[1].contents = ("a.txt" :> 2 @@ "d" :> 3)
              /\ nodes[2].tag = "FileNode" /\ nodes[2].attr.size = 5
              /\ nodes[3].tag = "DirNode" /\ nodes[3].contents = ("b.txt" :> 4)
              /\ nodes[4].tag = "FileNode" /\ nodes[4].attr.size = 3

\* a table whose root holds a non-empty directory followed by a sibling
C8_Witness ==
    /\ Built
    /\ Len(files) = 2
    /\ files[1].tag = "Directory"
    /\ Len(files[1].contents) = 1
    /\ files[2].tag = "URLFile"
    /\ nodes[4].attr.ino = 4
    /\ nodes[4].tag = "FileNode"

\* C9: with names unique within each directory, every value of a children
\* mapping is an identifier of the table and the node stored there is the one
\* built from the declared child of that name.
C9_ChildrenValid ==
    (Built /\ AllUnique) =>
        \A d \in 1..Len(nodes) :
            nodes[d].tag = "DirNode" =>
                LET decl == DeclaredAt(d) IN
                /\ decl.tag = "Directory"
                /\ DOMAIN nodes[d].contents = { decl.contents[i].name : i \in 1..Len(decl.contents) }
                /\ \A i \in 1..Len(decl.contents) :
                      LET id == nodes[d].contents[decl.contents[i].name] IN
                      /\ id \in 1..Len(nodes)
                      /\ BuiltFrom(nodes[id], decl.contents[i])

\* a table with a directory below the root that maps a name to a file
C9_Witness ==
    /\ Built
    /\ AllUnique
    /\ \E d \in 2..Len(nodes) :
          /\ nodes[d].tag = "DirNode"
          /\ \E n \in DOMAIN nodes[d].contents : nodes[nodes[d].contents[n]].tag = "FileNode"
    /\ Cardinality(DOMAIN nodes[1].contents) = 2


\* the url of the file the last call addressed
OpUrl == nodes[op.ino].url

\* C2: once a transfer for a url has succeeded, no later read invokes the
\* transfer for it again: a read that invoked the transfer found no earlier
\* success, so no url is transferred successfully more than once.
C2_CacheIdempotent ==
    /\ \A u \in URLs : fetches[u] <= 1
    /\ (op.call = "read" /\ IsFile(op.ino) /\ op.fetch # "none") =>
          fetches[OpUrl] = (IF op.fetch = "ok" THEN 1 ELSE 0)
    /\ (op.call = "read" /\ ~IsFile(op.ino)) => op.fetch = "none"
    /\ (op.call = "read" /\ IsFile(op.ino) /\ op.fetch = "none") =>
          /\ fetches[OpUrl] = 1
          /\ OpUrl \in DOMAIN cache

\* a read served from the cache after the one transfer of its url
C2_Witness ==
    /\ op.call = "read"
    /\ IsFile(op.ino)
    /\ op.fetch = "none"
    /\ reply.kind = "data"
    /\ fetches[OpUrl] = 1
    /\ op.offset = 2

\* C3: a read of a file at an offset within its remote body B replies
\* exactly B from that offset to its end, whatever the requested size, on a
\* cache miss whose transfer succeeds and on a cache hit alike.
C3_ReadTail ==
    (/\ op.call = "read"
     /\ IsFile(op.ino)
     /\ op.fetch \in {"ok", "none"}
     /\ 0 <= op.offset
     /\ op.offset <= Len(remote[OpUrl])) =>
        /\ reply.kind = "data"
        /\ reply.data = SubSeq(remote[OpUrl], op.offset + 1, Len(remote[OpUrl]))

\* the second read of the example: offset 2, size 3 of "hello", from the cache
C3_Witness ==
    /\ op.call = "read"
    /\ op.ino = 2
    /\ IsFile(2)
    /\ op.offset = 2
    /\ op.size = 3
    /\ op.fetch = "none"
    /\ reply.kind = "data"
    /\ reply.data = <<"l", "l", "o">>

\* C4: a read whose transfer fails ends with an error reply, stores nothing
\* and leaves the service alive.
C4_FetchFailureScoped ==
    (op.call = "read" /\ op.fetch = "err") =>
        /\ reply.kind = "error"
        /\ alive
        /\ OpUrl \notin DOMAIN cache

\* the listing of directory ino from the start, by an unsaturated consumer
FromScratch(ino) ==
    ReaddirReply(nodes, iter_order, ino, 0, [full |-> FALSE, after |-> 0]).entries

\* C5: readdir of a directory at offset k >= 0, unsaturated, emits the
\* entries of the from-scratch listing at 0-based positions >= k, in order;
\* positions 0 and 1 are "." and ".." with the directory's own identifier and
\* type Directory; k at or past the end gives an empty listing and success.
C5_Resume ==
    (/\ op.call = "readdir"
     /\ IsDir(op.ino)
     /\ ~op.room.full
     /\ op.offset >= 0) =>
        LET all == FromScratch(op.ino) IN
        /\ reply.kind = "directory"
        /\ Len(all) = 2 + Cardinality(DOMAIN nodes[op.ino].contents)
        /\ all[1] = [ino |-> op.ino, offset |-> 1, kind |-> "Directory", name |-> "."]
        /\ all[2] = [ino |-> op.ino, offset |-> 2, kind |-> "Directory", name |-> ".."]
        /\ \A i \in 1..Len(all) : all[i].offset = i
        /\ reply.entries = SubSeq(all, op.offset + 1, Len(all))
        /\ op.offset >= Len(all) => reply.entries = <<>>

\* a listing resumed in the middle of a directory's children
C5_Witness ==
    /\ op.call = "readdir"
    /\ IsDir(op.ino)
    /\ ~op.room.full
    /\ op.offset = 3
    /\ reply.kind = "directory"
    /\ Len(reply.entries) = 1
    /\ reply.entries[1].offset = 4

\* C6: the entries readdir emits after "." and ".." are the directory's
\* children in the order of their declaration.
C6_DeclaredOrder ==
    (/\ op.call = "readdir"
     /\ IsDir(op.ino)
     /\ ~op.room.full
     /\ op.offset = 0
     /\ UniqueNames(DeclaredAt(op.ino).contents)) =>
        LET decl == DeclaredAt(op.ino).contents IN
        /\ reply.kind = "directory"
        /\ Len(reply.entries) = 2 + Len(decl)
        /\ \A i \in 1..Len(decl) : reply.entries[2 + i].name = decl[i].name

\* C7: lookup of a name of a directory's children mapping replies the
\* attributes getattr replies for the mapped identifier; lookup of any other
\* name in that directory replies ENOENT.
C7_LookupMatchesGetattr ==
    (op.call = "lookup" /\ IsDir(op.ino)) =>
        IF op.name \in DOMAIN nodes[op.ino].contents
        THEN LET got == GetattrReply(nodes, nodes[op.ino].contents[op.name]) IN
             /\ got.kind = "attr"
             /\ reply.kind = "entry"
             /\ reply.attr = got.attr
        ELSE reply.kind = "error" /\ reply.errno = ENOENT

\* a lookup below the root that found a file
C7_Witness ==
    /\ op.call = "lookup"
    /\ IsDir(op.ino)
    /\ op.ino > 1
    /\ op.name \in DOMAIN nodes[op.ino].contents
    /\ reply.kind = "entry"
    /\ reply.attr.kind = "RegularFile"

\* a handler step on an identifier outside the table replies ENOENT, does
\* not panic and leaves the cache as it was
C10_Step ==
    (op = NoOp /\ op' # NoOp /\ op'.ino \notin 1..Len(nodes)) =>
        /\ reply'.kind = "error"
        /\ reply'.errno = ENOENT
        /\ alive'
        /\ cache' = cache

\* C10: for every identifier outside [1, N], getattr, lookup, readdir and
\* read each reply ENOENT, without a crash and without changing the cache.
C10_OutOfRange == [][C10_Step]_vars

\* a read of the identifier after the last, with a body already cached
C10_Witness ==
    /\ op.call = "read"
    /\ op.ino = Len(nodes) + 1
    /\ reply.kind = "error"
    /\ DOMAIN cache # {}


\* the call of this step addresses a node of the wrong kind
WrongKind ==
    \/ op'.call = "lookup" /\ IsFile(op'.ino)
    \/ op'.call = "readdir" /\ IsFile(op'.ino)
    \/ op'.call = "read" /\ IsDir(op'.ino)

\* a handler step on a node of the wrong kind replies ENOENT at once, makes
\* no transfer, leaves the cache as it was and leaves the service alive
C11_Step ==
    (op = NoOp /\ op' # NoOp /\ WrongKind) =>
        /\ reply'.kind = "error"
        /\ reply'.errno = ENOENT
        /\ op'.call = "read" => op'.fetch = "none"
        /\ fetches' = fetches
        /\ cache' = cache
        /\ alive'

\* C11: lookup with a file as parent, readdir of a file and read of a
\* directory (the root included) each reply ENOENT, invoke no transfer, leave
\* the cache unchanged, and the service keeps answering.
C11_WrongKind == [][C11_Step]_vars

\* a read of the root directory, with a body already cached
C11_Witness ==
    /\ op.call = "read"
    /\ op.ino = 1
    /\ reply.kind = "error"
    /\ reply.errno = ENOENT
    /\ DOMAIN cache # {}
    /\ alive

RECURSIVE Drain(_, _, _, _)
\* what a consumer that accepts at most cap entries per call collects when it
\* calls readdir again and again with the next offset of the last entry it
\* accepted, until a call comes back empty
Drain(ino, k, cap, fuel) ==
    LET got == ReaddirReply(nodes, iter_order, ino, k, [full |-> TRUE, after |-> cap]).entries IN
    IF got = <<>> \/ fuel = 0 THEN got
    ELSE got \o Drain(ino, got[Len(got)].offset, cap, fuel - 1)

C13_Step ==
    /\ \A u \in DOMAIN cache : u \in DOMAIN cache' /\ cache'[u] = cache[u]
    /\ DOMAIN cache' # DOMAIN cache =>
          /\ Pending
          /\ IsFile(op.ino)
          /\ nodes[op.ino].url \notin DOMAIN cache
          /\ op'.call = "read" /\ op'.fetch = "ok"
          /\ reply'.kind = "data"
          /\ DOMAIN cache' = DOMAIN cache \cup {nodes[op.ino].url}
          /\ cache'[nodes[op.ino].url] = remote[nodes[op.ino].url]

\* C13: the cache starts empty, a url once cached stays cached with the same
\* bytes, and the only step that adds an entry is a read of a file that
\* missed the cache and whose transfer succeeded.
C13_CacheMonotone == (cache = EmptyMap) /\ [][C13_Step]_vars

\* a second body cached beside the first
C13_Witness ==
    /\ op.call = "read"
    /\ op.fetch = "ok"
    /\ reply.kind = "data"
    /\ Cardinality(DOMAIN cache) = 2

\* C14: no call changes the node table: it stays the table the constructor
\* built, also after a read that received a body whose length is not the
\* declared size, so getattr and lookup reply what they reply on that table.
C14_TableFrozen ==
    /\ nodes = NewNodes(files)
    /\ op.call = "getattr" =>
          LET built == GetattrReply(NewNodes(files), op.ino) IN
          reply.kind = built.kind /\ reply = built
    /\ op.call = "lookup" =>
          LET built == LookupReply(NewNodes(files), op.ino, op.name) IN
          reply.kind = built.kind /\ reply = built

\* getattr of a file whose cached body is not as long as its declared size
C14_Witness ==
    /\ op.call = "getattr"
    /\ IsFile(op.ino)
    /\ nodes[op.ino].url \in DOMAIN cache
    /\ Len(cache[nodes[op.ino].url]) # nodes[op.ino].attr.size
    /\ reply.kind = "attr"
    /\ reply.attr.size = nodes[op.ino].attr.size

\* while a read is blocked in its transfer the only step is the end of that
\* same read; once a handler has replied the only step is the return to the
\* session loop, which leaves the cache as the handler left it
C15_Step ==
    /\ Pending =>
          /\ op'.call = "read"
          /\ op'.ino = op.ino /\ op'.offset = op.offset /\ op'.size = op.size
          /\ op'.fetch \in {"ok", "err"}
    /\ (op # NoOp /\ ~Pending) => (op' = NoOp /\ cache' = cache)

\* C15: calls are strictly sequential: from the start of a transfer to the
\* store of its body no other call starts, so no two transfers are in
\* flight, and every call sees the cache as the call before it left it.
C15_Sequential == [][C15_Step]_vars

\* a read blocked in its transfer while another body is already cached
C15_Witness ==
    /\ Pending
    /\ DOMAIN cache # {}
    /\ alive


\* C16: every node has permission 0o444 and link count 1; a file has its
\* declared size and floor(size / 512) blocks; a directory, the root
\* included, has size 0, 0 blocks and kind Directory.
C16_Attributes ==
    Built =>
        \A i \in 1..Len(nodes) :
            LET a == get_attr(nodes[i])
                decl == DeclaredAt(i)
            IN /\ a.perm = 4 * 64 + 4 * 8 + 4
               /\ a.nlink = 1
               /\ IF decl.tag = "URLFile"
                  THEN /\ nodes[i].tag = "FileNode"
                       /\ a.kind = "RegularFile"
                       /\ a.size = decl.size
                       /\ a.blocks * 512 <= decl.size
                       /\ decl.size < (a.blocks + 1) * 512
                  ELSE /\ nodes[i].tag = "DirNode"
                       /\ a.kind = "Directory"
                       /\ a.size = 0
                       /\ a.blocks = 0

\* a table with a file of more than one block and a file of less than one
C16_Witness ==
    /\ Built
    /\ \E i \in 1..Len(nodes) : nodes[i].tag = "FileNode" /\ nodes[i].attr.blocks = 2
    /\ \E i \in 1..Len(nodes) : nodes[i].tag = "FileNode" /\ nodes[i].attr.blocks = 0
    /\ \E i \in 2..Len(nodes) : nodes[i].tag = "DirNode"


\* C17: read of a file completes with a reply, data or an error, at every
\* byte offset, past the end of the body and negative ones included, on a
\* cache miss and on a cache hit, and the service stays alive.
C17_ReadTotal ==
    (op.call = "read" /\ IsFile(op.ino) /\ op.fetch \in {"ok", "none"}) =>
        /\ reply.kind \in {"data", "error"}
        /\ alive

\* the urls declared by the files of the table
TableUrls == { nodes[i].url : i \in { j \in 1..Len(nodes) : nodes[j].tag = "FileNode" } }

\* C18: the cache is keyed by url: once the read of one file has transferred
\* a url, the read of any other file of that url is a cache hit that makes no
\* transfer and replies a slice of the same buffer; so the successful
\* transfers never outnumber the distinct urls of the table.
C18_KeyedByUrl ==
    /\ fetches[URLA] + fetches[URLB] <= Cardinality(TableUrls)
    /\ \A u \in URLs : fetches[u] >= 1 => (IsFile(fetcher[u]) /\ nodes[fetcher[u]].url = u)
    /\ (op.call = "read" /\ IsFile(op.ino) /\ fetcher[OpUrl] \notin {0, op.ino}) =>
          /\ op.fetch = "none"
          /\ fetches[OpUrl] = 1
          /\ OpUrl \in DOMAIN cache
          /\ alive =>
                /\ reply.kind = "data"
                /\ reply.data = SubSeq(cache[OpUrl], op.offset + 1, Len(cache[OpUrl]))

\* a read of one file served from the body that the read of another file
\* of the same url transferred
C18_Witness ==
    /\ op.call = "read"
    /\ IsFile(op.ino)
    /\ fetcher[OpUrl] \notin {0, op.ino}
    /\ op.fetch = "none"
    /\ reply.kind = "data"
    /\ op.offset = 1


\* the i-th declared child of these contents has a later sibling of its name
Shadowed(contents, i) ==
    \E j \in (i + 1)..Len(contents) : contents[j].name = contents[i].name

\* the names a lookup may ask for: the probed ones and every declared one
AskedNames == LookupNames \cup { DeclaredAt(i).name : i \in 2..(NodeCount(files) + 1) }

\* C19: with two siblings of one name the build still gives every declared
\* node its own identifier, 1..N without a gap; the children mapping of the
\* directory has one entry per name, the identifier of the last declared
\* sibling of that name; an earlier sibling of the name is answered by
\* getattr on its identifier, is the entry of no lookup and is the child
\* entry of no listing (the "." and ".." entries of a directory's own
\* listing, which carry that directory's identifier, aside).
C19_DuplicateNames ==
    Built =>
        /\ Len(nodes) = NodeCount(files) + 1
        /\ \A p \in 1..Len(nodes) : nodes[p].attr.ino = p /\ BuiltFrom(nodes[p], DeclaredAt(p))
        /\ \A d \in 1..Len(nodes) :
              DeclaredAt(d).tag = "Directory" =>
                  LET c == DeclaredAt(d).contents IN
                  /\ DOMAIN nodes[d].contents = { c[i].name : i \in 1..Len(c) }
                  /\ \A i \in 1..Len(c) :
                        LET id == ChildId(c, d, i) IN
                        IF ~Shadowed(c, i)
                        THEN nodes[d].contents[c[i].name] = id
                        ELSE /\ GetattrReply(nodes, id).kind = "attr"
                             /\ GetattrReply(nodes, id).attr.ino = id
                             /\ \A p \in 0..(Len(nodes) + 1) : \A name \in AskedNames :
                                   LET r == LookupReply(nodes, p, name) IN
                                   r.kind = "entry" => r.attr.ino # id
                             /\ \A q \in 1..Len(nodes) :
                                   nodes[q].tag = "DirNode" =>
                                       LET es == Chained(nodes, iter_order, q) IN
                                       \A k \in 3..Len(es) : es[k].ino # id

\* a table built from a root that declares a.txt twice, with two urls; the
\* name maps to the second
C19_Witness ==
    /\ Built
    /\ Len(files) = 2
    /\ files[1].tag = "URLFile" /\ files[2].tag = "URLFile"
    /\ files[1].name = files[2].name
    /\ files[1].url # files[2].url
    /\ Shadowed(files, 1)
    /\ nodes[1].contents = (files[1].name :> 3)
    /\ GetattrReply(nodes, 2).kind = "attr"

\* the (directory, name) entries of the children mappings
Entries == { e \in (1..Len(nodes)) \X AskedNames :
                nodes[e[1]].tag = "DirNode" /\ e[2] \in DOMAIN nodes[e[1]].contents }

\* the identifier a children mapping entry holds
EntryValue(e) == nodes[e[1]].contents[e[2]]

RECURSIVE LookupClosure(_, _)
\* the identifiers reached from the set S by at most fuel rounds of lookups
LookupClosure(S, fuel) ==
    IF fuel = 0 THEN S
    ELSE LookupClosure(
             S \cup { LookupReply(nodes, p, name).attr.ino :
                        <<p, name>> \in { e \in Entries : e[1] \in S } },
             fuel - 1)

\* C20: with names unique within every directory the children mappings form
\* a tree rooted at 1: no entry holds 1, every identifier of 2..N is held by
\* exactly one (directory, name) entry, every entry holds an identifier
\* greater than its directory's; so lookups from the root reach every node.
C20_Tree ==
    (Built /\ AllUnique) =>
        /\ \A e \in Entries : EntryValue(e) # 1
        /\ \A id \in 2..Len(nodes) :
              Cardinality({ e \in Entries : EntryValue(e) = id }) = 1
        /\ \A e \in Entries : EntryValue(e) > e[1] /\ EntryValue(e) \in 2..Len(nodes)
        /\ LookupClosure({1}, Len(nodes)) = 1..Len(nodes)

\* a table of four nodes, three levels deep or two wide, with unique names
C20_Witness ==
    /\ Built
    /\ AllUnique
    /\ Len(nodes) = 4
    /\ Cardinality(Entries) = 3
    /\ \E e \in Entries : e[1] > 1 /\ EntryValue(e) = 4

====
